---- MODULE Spec2Model ----
(***************************************************************************)
(* A model of mbfio.asc.parse_contours, the streaming parser of the        *)
(* MicroBrightField ASC text format (specification Spec), of the geometry  *)
(* engine mbfio.polygons (GeoSpec) and of the voxel size that the readers  *)
(* take (VxSpec), and of mbfio.xml.parse_stereo (StereoSpec).              *)
(*                                                                         *)
(* Text is modelled at token level: a line is a sequence of tokens, each   *)
(* token standing for a run of characters of the file.  The structural     *)
(* characters "(", ")", ";", the double quote and a run of blanks " " are   *)
(* tokens of their own; a word (Description, S1, ...) and a numeral        *)
(* ("-3", "2") are atomic tokens.  The input file is a sequence of         *)
(* physical lines (their newline left implicit).                           *)
(***************************************************************************)
EXTENDS Integers, Sequences, FiniteSets, TLC

VARIABLES file, pos, line, pc, err, asc, section, names, handled, mid,
          parses, earlier,
          geo, gpc, gerr, mask, before, ncalls,
          vxarg, vx, vxpc,
          xobj, xspace, info, xsites, xpc, xerr

\* the state of a parse; parses counts the calls of parse_contours on the
\* file and earlier is the Document that the call before returned
parserVars == <<file, pos, line, pc, err, asc, section, names, handled, mid,
                parses, earlier>>

\* the state of a call of the geometry engine
geoVars == <<geo, gpc, gerr, mask, before, ncalls>>

\* the voxel size given to a reader, and what the reader has made of it
vxVars == <<vxarg, vx, vxpc>>

\* the object and the options given to parse_stereo, and its progress
stereoVars == <<xobj, xspace, info, xsites, xpc, xerr>>

vars == <<parserVars, geoVars, vxVars, stereoVars>>

(***************************************************************************)
(* Tokens                                                                  *)
(***************************************************************************)
LP == "("
RP == ")"
SC == ";"
SP == " "
QT == "\""

\* float(text) of a numeral token, as the float pattern of `patterns` reads it
NumVal == ("-3" :> -3) @@ ("-1" :> -1) @@ ("0" :> 0) @@ ("1" :> 1) @@
          ("2" :> 2) @@ ("3" :> 3) @@ ("4" :> 4) @@ ("5" :> 5) @@ ("6" :> 6)

Numerals == DOMAIN NumVal

\* tokens made of word characters only (the str pattern \w+)
Words == {"Description", "Sections", "Color", "Closed", "Other", "RGB",
          "S1", "S2", "n1", "n2", "d1", "d2", "A", "B", "x",
          "GB", "0", "1", "2", "3", "4", "5", "6"}

\* what is left of a token of several characters once its first is cut
TailOfToken == ("RGB" :> "GB") @@ ("-3" :> "3") @@ ("-1" :> "1")

(***************************************************************************)
(* String primitives of Python, on token sequences                         *)
(***************************************************************************)
Has(s, t) == \E i \in 1..Len(s) : s[i] = t

\* s.index(t), 1-based; 0 when t is not in s (Python raises ValueError)
IndexOf(s, t) ==
    IF Has(s, t) THEN CHOOSE i \in 1..Len(s) : s[i] = t /\ \A j \in 1..(i-1) : s[j] # t
    ELSE 0

\* s[k:] with k counted in tokens
From(s, k) == SubSeq(s, k + 1, Len(s))

\* s[:k]
Upto(s, k) == SubSeq(s, 1, k)

LStrip(s) ==
    IF \A i \in 1..Len(s) : s[i] = SP THEN << >>
    ELSE LET k == CHOOSE i \in 1..Len(s) : s[i] # SP /\ \A j \in 1..(i-1) : s[j] = SP
         IN SubSeq(s, k, Len(s))

RStrip(s) ==
    IF \A i \in 1..Len(s) : s[i] = SP THEN << >>
    ELSE LET k == CHOOSE i \in 1..Len(s) : s[i] # SP /\ \A j \in (i+1)..Len(s) : s[j] = SP
         IN SubSeq(s, 1, k)

Strip(s) == LStrip(RStrip(s))

StartsWith(s, p) == Len(s) >= Len(p) /\ SubSeq(s, 1, Len(p)) = p

\* s[1:] in characters, when the cut may fall inside the first token
DropChar(s) ==
    IF s = << >> THEN << >>
    ELSE IF Head(s) \in DOMAIN TailOfToken THEN <<TailOfToken[Head(s)]>> \o Tail(s)
    ELSE Tail(s)

(***************************************************************************)
(* The line source                                                         *)
(***************************************************************************)
AtEOF(f, p) == p >= Len(f)

\* f.readline(): the next physical line; '' at end of file
ReadLine(f, p) == IF AtEOF(f, p) THEN << >> ELSE f[p + 1]

\* the cursor after f.readline()
Advance(f, p) == IF AtEOF(f, p) THEN p ELSE p + 1

strip_line(l) == Strip(IF Has(l, SC) THEN Upto(l, IndexOf(l, SC) - 1) ELSE l)

\* is_closing that throws away what follows the close bracket on its line
is_closing_drops_post(f, p, l) ==
    LET closed == Has(l, RP)
        ci     == IndexOf(l, RP)
        pre    == IF closed THEN RStrip(Upto(l, ci - 1)) ELSE l
        post   == IF closed THEN LStrip(From(l, ci)) ELSE << >>
    IN  [pre |-> pre, closed |-> closed, post |-> strip_line(ReadLine(f, p)),
         pos |-> Advance(f, p), tail |-> post]

\* s.rindex(t), 1-based; 0 when t is not in s
LastIndexOf(s, t) ==
    IF Has(s, t) THEN CHOOSE i \in 1..Len(s) : s[i] = t /\ \A j \in (i+1)..Len(s) : s[j] # t
    ELSE 0

\* is_closing that splits at the last close bracket of the line
is_closing_at_last(f, p, l) ==
    LET closed == Has(l, RP)
        ci     == LastIndexOf(l, RP)
        pre    == IF closed THEN RStrip(Upto(l, ci - 1)) ELSE l
        post   == IF closed THEN LStrip(From(l, ci)) ELSE << >>
    IN  IF post = << >>
        THEN [pre |-> pre, closed |-> closed, post |-> strip_line(ReadLine(f, p)),
              pos |-> Advance(f, p), tail |-> << >>]
        ELSE [pre |-> pre, closed |-> closed, post |-> post, pos |-> p, tail |-> post]

\* is_closing(line): split at the first close bracket; when nothing is left
\* after it (or there is none), the next line is pulled from the file.
\* tail is the text after the bracket before any line is pulled.
is_closing(f, p, l) ==
    LET closed == Has(l, RP)
        ci     == IndexOf(l, RP)
        pre    == IF closed THEN RStrip(Upto(l, ci - 1)) ELSE l
        post   == IF closed THEN LStrip(From(l, ci)) ELSE << >>
    IN  IF post = << >>
        THEN [pre |-> pre, closed |-> closed, post |-> strip_line(ReadLine(f, p)),
              pos |-> Advance(f, p), tail |-> << >>]
        ELSE [pre |-> pre, closed |-> closed, post |-> post, pos |-> p, tail |-> post]

(***************************************************************************)
(* The field decoders                                                      *)
(***************************************************************************)
\* the value Python's None, where a decoder returns it for a section id
None == "<None>"

\* the first index >= i of s that holds no blank (Len(s) + 1 when there is none)
SkipSP(s, i) ==
    IF \A j \in i..Len(s) : s[j] = SP THEN Len(s) + 1
    ELSE CHOOSE k \in i..Len(s) : s[k] # SP /\ \A j \in i..(k-1) : s[j] = SP

IsNum(s, i) == i <= Len(s) /\ s[i] \in Numerals

IsWord(s, i) == i <= Len(s) /\ s[i] \in Words

\* \s+ at i: at least one blank; GapEnd is where the next field starts
IsGap(s, i) == i <= Len(s) /\ s[i] = SP

\* parse_section reading the three numbers as top, cut and mounted thickness
\* in the order of the file
parse_section_in_file_order(v) ==
    LET q1 == SkipSP(v, 2)
        q2 == IF q1 <= Len(v) /\ Has(From(v, q1), QT) THEN q1 + IndexOf(From(v, q1), QT) ELSE 0
        iz == SkipSP(v, q2 + 1)
        iy == SkipSP(v, iz + 1)
        ix == SkipSP(v, iy + 1)
        ok == /\ IsWord(v, 1) /\ IsGap(v, 2)
              /\ q1 <= Len(v) /\ v[q1] = QT
              /\ q2 # 0
              /\ IsGap(v, q2 + 1) /\ IsNum(v, iz)
              /\ IsGap(v, iz + 1) /\ IsNum(v, iy)
              /\ IsGap(v, iy + 1) /\ IsNum(v, ix)
    IN  IF ok
        THEN [ok |-> TRUE, key |-> v[1],
              val |-> [name |-> SubSeq(v, q1 + 1, q2 - 1),
                       top |-> NumVal[v[iz]],
                       cutthickness |-> NumVal[v[iy]],
                       mountedthickness |-> NumVal[v[ix]],
                       contours |-> << >>]]
        ELSE [ok |-> FALSE]

\* parse_section(line): re.match of  key "name" z y x  at the start of line
parse_section(v) ==
    LET q1 == SkipSP(v, 2)
        q2 == IF q1 <= Len(v) /\ Has(From(v, q1), QT) THEN q1 + IndexOf(From(v, q1), QT) ELSE 0
        iz == SkipSP(v, q2 + 1)
        iy == SkipSP(v, iz + 1)
        ix == SkipSP(v, iy + 1)
        ok == /\ IsWord(v, 1) /\ IsGap(v, 2)
              /\ q1 <= Len(v) /\ v[q1] = QT
              /\ q2 # 0
              /\ IsGap(v, q2 + 1) /\ IsNum(v, iz)
              /\ IsGap(v, iz + 1) /\ IsNum(v, iy)
              /\ IsGap(v, iy + 1) /\ IsNum(v, ix)
    IN  IF ok
        THEN [ok |-> TRUE, key |-> v[1],
              val |-> [name |-> SubSeq(v, q1 + 1, q2 - 1),
                       top |-> NumVal[v[ix]],
                       cutthickness |-> NumVal[v[iy]],
                       mountedthickness |-> 0 - NumVal[v[iz]],
                       contours |-> << >>]]
        ELSE [ok |-> FALSE]

\* parse_point negating the third coordinate
parse_point_negates_z(v) ==
    LET iy == SkipSP(v, 2)
        iz == SkipSP(v, iy + 1)
        iu == SkipSP(v, iz + 1)
        is == SkipSP(v, iu + 1)
        ok == /\ IsNum(v, 1)
              /\ IsGap(v, 2) /\ IsNum(v, iy)
              /\ IsGap(v, iy + 1) /\ IsNum(v, iz)
              /\ IsGap(v, iz + 1) /\ IsNum(v, iu)
              /\ IsGap(v, iu + 1) /\ IsWord(v, is)
    IN  IF ok
        THEN [ok |-> TRUE,
              coord |-> <<NumVal[v[1]], NumVal[v[iy]], 0 - NumVal[v[iz]]>>,
              section |-> v[is]]
        ELSE [ok |-> FALSE, coord |-> << >>, section |-> None]

\* parse_point(line): re.match of  x y z unknown section  at the start of line
parse_point(v) ==
    LET iy == SkipSP(v, 2)
        iz == SkipSP(v, iy + 1)
        iu == SkipSP(v, iz + 1)
        is == SkipSP(v, iu + 1)
        ok == /\ IsNum(v, 1)
              /\ IsGap(v, 2) /\ IsNum(v, iy)
              /\ IsGap(v, iy + 1) /\ IsNum(v, iz)
              /\ IsGap(v, iz + 1) /\ IsNum(v, iu)
              /\ IsGap(v, iu + 1) /\ IsWord(v, is)
    IN  IF ok
        THEN [ok |-> TRUE,
              coord |-> <<NumVal[v[1]], NumVal[v[iy]], NumVal[v[iz]]>>,
              section |-> v[is]]
        ELSE [ok |-> FALSE, coord |-> << >>, section |-> None]

(***************************************************************************)
(* The document assembler.  A machine state m is the record of the         *)
(* parser's variables: the cursor pos into the file, the line buffer, the  *)
(* document asc, and where the run stands (pc): "top" in the main loop,    *)
(* "done" after the return, "error" after an exception (err names it),     *)
(* "hang" in a loop that never ends.  section is the section id of the     *)
(* contour read last.  names, handled and mid record the contour names     *)
(* read, the record type handled last and the text that was left on the    *)
(* physical line after its close bracket.                                  *)
(***************************************************************************)
EmptyDoc == [description |-> << >>, regions |-> << >>, sections |-> << >>]

Start == [pos |-> 0, line |-> << >>, pc |-> "top", err |-> "", asc |-> EmptyDoc,
          section |-> "", names |-> << >>, handled |-> "", mid |-> << >>]

Fail(m, e) == [m EXCEPT !.pc = "error", !.err = e]

Hang(m) == [m EXCEPT !.pc = "hang"]

\* with no close bracket left in the buffer and the file exhausted, is_closing
\* returns ('', False, '') for ever
Exhausted(f, p, l) == AtEOF(f, p) /\ ~Has(l, RP)

\* while True: if closed: break; value, closed, line = is_closing(line);
\*             description += value
RECURSIVE DescLoop(_, _, _)
DescLoop(f, desc, r) ==
    IF r.closed THEN [st |-> "ok", desc |-> desc, r |-> r]
    ELSE IF Exhausted(f, r.pos, r.post) THEN [st |-> "hang", desc |-> desc, r |-> r]
    ELSE CHOOSE res \in {DescLoop(f, desc \o n.pre, n) :
                          n \in {is_closing(f, r.pos, r.post)}} : TRUE

\* the '(Description' record
Description(f, m, l, p) ==
    LET r0  == is_closing(f, p, LStrip(From(l, 2)))
        res == DescLoop(f, r0.pre, r0)
    IN  IF res.st = "hang" THEN Hang([m EXCEPT !.pos = res.r.pos, !.handled = "desc"])
        ELSE [m EXCEPT !.pos = res.r.pos, !.line = res.r.post,
                       !.asc.description = Strip(res.desc),
                       !.handled = "desc", !.mid = res.r.tail]

\* a decoder loop that inserts the first record it decodes and no other
AddSectionOnce(sections, value) ==
    IF value = << >> \/ sections # << >> THEN sections
    ELSE LET ps == parse_section(value)
         IN IF ps.ok THEN (ps.key :> ps.val) @@ sections ELSE sections

\* if value: key, value = parse_section(value); if key: sections[key] = value
AddSection(sections, value) ==
    IF value = << >> THEN sections
    ELSE LET ps == parse_section(value)
         IN IF ps.ok THEN (ps.key :> ps.val) @@ sections ELSE sections

RECURSIVE SectLoop(_, _, _)
SectLoop(f, sections, r) ==
    IF r.closed THEN [st |-> "ok", sections |-> sections, r |-> r]
    ELSE IF Exhausted(f, r.pos, r.post) THEN [st |-> "hang", sections |-> sections, r |-> r]
    ELSE CHOOSE res \in {SectLoop(f, AddSection(sections, n.pre), n) :
                          n \in {is_closing(f, r.pos, r.post)}} : TRUE

\* asc['sections'] = sections
CommitSections(old, sections) == sections

\* the '(Sections' record
Sections(f, m, l, p) ==
    LET r0  == is_closing(f, p, LStrip(From(l, 2)))
        res == SectLoop(f, AddSection(<< >>, r0.pre), r0)
    IN  IF res.st = "hang" THEN Hang([m EXCEPT !.pos = res.r.pos, !.handled = "sect"])
        ELSE [m EXCEPT !.pos = res.r.pos, !.line = res.r.post,
                       !.asc.sections = CommitSections(m.asc.sections, res.sections),
                       !.handled = "sect", !.mid = res.r.tail]

\* _, closed, line = is_closing(line) until closed
RECURSIVE CloseLoop(_, _)
CloseLoop(f, r) ==
    IF r.closed THEN [st |-> "ok", r |-> r]
    ELSE IF Exhausted(f, r.pos, r.post) THEN [st |-> "hang", r |-> r]
    ELSE CHOOSE res \in {CloseLoop(f, n) : n \in {is_closing(f, r.pos, r.post)}} : TRUE

\* any other '(' record: skipped
SkipBlock(f, m, l, p) ==
    LET res == CloseLoop(f, is_closing(f, p, LStrip(From(l, 1))))
    IN  IF res.st = "hang" THEN Hang([m EXCEPT !.pos = res.r.pos, !.handled = "skip"])
        ELSE [m EXCEPT !.pos = res.r.pos, !.line = res.r.post,
                       !.handled = "skip", !.mid = res.r.tail]

(***************************************************************************)
(* The contour record                                                      *)
(***************************************************************************)
\* while True: if closed: break; value, closed, line = is_closing(line);
\*             color += line
RECURSIVE ColorLoop(_, _, _)
ColorLoop(f, color, r) ==
    IF r.closed THEN [st |-> "ok", color |-> color, r |-> r]
    ELSE IF Exhausted(f, r.pos, r.post) THEN [st |-> "hang", color |-> color, r |-> r]
    ELSE CHOOSE res \in {ColorLoop(f, color \o n.post, n) :
                          n \in {is_closing(f, r.pos, r.post)}} : TRUE

\* while True: line = strip_line(f.readline()); if ')' in line: cut; break
RECURSIVE PropLoop(_, _)
PropLoop(f, p) ==
    IF AtEOF(f, p) THEN [st |-> "hang", line |-> << >>, pos |-> p]
    ELSE LET l == strip_line(ReadLine(f, p))
         IN IF Has(l, RP) THEN [st |-> "ok", line |-> From(l, IndexOf(l, RP)), pos |-> p + 1]
            ELSE PropLoop(f, p + 1)

\* the point put in front of the list
AppendPointInFront(points, point) == <<point>> \o points

\* shape['points'].append(point)
AppendPoint(points, point) == Append(points, point)

\* one turn of the loop over the body of a contour: c holds line, pos, shape
\* and section; st is "run" while the loop goes on
ContourTurn(f, c) ==
    LET l    == IF c.line = << >> THEN strip_line(ReadLine(f, c.pos)) ELSE c.line
        p    == IF c.line = << >> THEN Advance(f, c.pos) ELSE c.pos
        rest == strip_line(From(l, 1))
    IN
    IF StartsWith(l, <<LP, "Color">>) THEN
        LET r0  == is_closing(f, p, LStrip(DropChar(From(l, 2))))
            res == ColorLoop(f, r0.pre, r0)
        IN  IF res.st = "hang" THEN [c EXCEPT !.st = "hang", !.pos = res.r.pos]
            ELSE [c EXCEPT !.line = res.r.post, !.pos = res.r.pos,
                           !.shape.hascolor = TRUE, !.shape.color = res.color]
    ELSE IF StartsWith(l, <<LP>>) /\ rest = << >> THEN
        [c EXCEPT !.st = "IndexError", !.line = l, !.pos = p]
    ELSE IF StartsWith(l, <<LP>>) /\ rest[1] \notin Numerals THEN
        LET closed == IF StartsWith(l, <<LP, "Closed">>) THEN TRUE ELSE c.shape.closed
            res    == IF Has(rest, RP)
                      THEN [st |-> "ok", line |-> From(rest, IndexOf(rest, RP)), pos |-> p]
                      ELSE PropLoop(f, p)
        IN  IF res.st = "hang" THEN [c EXCEPT !.st = "hang", !.pos = res.pos]
            ELSE [c EXCEPT !.line = strip_line(res.line), !.pos = res.pos,
                           !.shape.closed = closed]
    ELSE IF Has(l, RP) /\ ~Has(l, LP) THEN
        [c EXCEPT !.st = "break", !.line = l, !.pos = p]
    ELSE IF ~Has(l, LP) \/ ~Has(l, RP) THEN
        [c EXCEPT !.st = "ValueError", !.line = l, !.pos = p]
    ELSE
        LET value == Strip(SubSeq(l, IndexOf(l, LP) + 1, IndexOf(l, RP) - 1))
            nl    == Strip(From(l, IndexOf(l, RP)))
            pt    == parse_point(value)
        IN  IF value = << >> \/ value[1] \notin Numerals
            THEN [c EXCEPT !.line = nl, !.pos = p]
            ELSE [c EXCEPT !.line = nl, !.pos = p, !.section = pt.section,
                           !.shape.points = IF pt.ok THEN AppendPoint(@, pt.coord) ELSE @]

\* while True: ... over the body of a contour
RECURSIVE ContourLoop(_, _)
ContourLoop(f, c) ==
    IF c.st # "run" THEN c
    ELSE CHOOSE res \in {ContourLoop(f, n) : n \in {ContourTurn(f, c)}} : TRUE

\* a plain assignment in place of setdefault
SetDefaultAssigns(regions, name) ==
    (name :> (1 + Cardinality(DOMAIN regions))) @@ regions

\* asc['regions'].setdefault(name, 1 + len(asc['regions']))
SetDefault(regions, name) ==
    IF name \in DOMAIN regions THEN regions
    ELSE (name :> (1 + Cardinality(DOMAIN regions))) @@ regions

\* asc['sections'][section]['contours'].append(shape)
AppendContour(sections, sid, shape) ==
    [sections EXCEPT ![sid].contours = Append(@, shape)]

\* the '("name"' record
Contour(f, m, l, p) ==
    LET l2   == From(l, 2)
        last == IndexOf(l2, QT)
        name == Upto(l2, last - 1)
        c0   == [st |-> "run", line |-> LStrip(From(l2, last)), pos |-> p,
                 shape |-> [name |-> name, closed |-> FALSE, hascolor |-> FALSE,
                            color |-> << >>, points |-> << >>],
                 section |-> ""]
        c    == ContourLoop(f, c0)
        d    == CloseLoop(f, is_closing(f, c.pos, c.line))
        m1   == [m EXCEPT !.names = Append(@, name), !.handled = "contour", !.mid = << >>,
                          !.section = c.section]
    IN  IF last = 0 THEN Fail([m EXCEPT !.pos = p, !.handled = "contour"], "ValueError")
        ELSE IF c.st = "hang" THEN Hang([m1 EXCEPT !.pos = c.pos])
        ELSE IF c.st # "break" THEN Fail([m1 EXCEPT !.pos = c.pos], c.st)
        ELSE IF d.st = "hang" THEN Hang([m1 EXCEPT !.pos = d.r.pos])
        ELSE LET m2 == [m1 EXCEPT !.pos = d.r.pos, !.line = d.r.post, !.mid = d.r.tail,
                                  !.asc.regions = SetDefault(@, name)]
             IN IF c.section \notin DOMAIN m.asc.sections THEN Fail(m2, "KeyError")
                ELSE [m2 EXCEPT !.asc.sections = AppendContour(@, c.section, c.shape)]

(***************************************************************************)
(* The main loop                                                           *)
(***************************************************************************)
\* if not line: line = f.readline(); if not line: break
\* line = strip_line(line)
Fetched(f, m) ==
    IF m.line = << >>
    THEN [eof |-> AtEOF(f, m.pos), line |-> strip_line(ReadLine(f, m.pos)),
          pos |-> Advance(f, m.pos)]
    ELSE [eof |-> FALSE, line |-> strip_line(m.line), pos |-> m.pos]

\* which branch of the loop body the fetched line takes
Kind(f, m) ==
    LET l == Fetched(f, m).line
    IN  IF Fetched(f, m).eof THEN "eof"
        ELSE IF StartsWith(l, <<LP, "Description">>) THEN "desc"
        ELSE IF StartsWith(l, <<LP, "Sections">>) THEN "sect"
        ELSE IF StartsWith(l, <<LP, QT>>) THEN "contour"
        ELSE IF StartsWith(l, <<LP>>) THEN "skip"
        ELSE IF l = << >> THEN "blank"
        ELSE "stray"

\* a line with nothing on it takes no branch: the next turn reads on
Blank(m, p) == [m EXCEPT !.line = << >>, !.pos = p]

\* a line that opens no bracket takes no branch and stays in the buffer
Stray(m, l, p) == Hang([m EXCEPT !.line = l, !.pos = p, !.handled = "stray"])

\* one turn of the main loop
Step(f, m) ==
    LET g == Fetched(f, m)
        k == Kind(f, m)
    IN  CASE k = "eof"     -> [m EXCEPT !.pc = "done"]
          [] k = "desc"    -> Description(f, m, g.line, g.pos)
          [] k = "sect"    -> Sections(f, m, g.line, g.pos)
          [] k = "contour" -> Contour(f, m, g.line, g.pos)
          [] k = "skip"    -> SkipBlock(f, m, g.line, g.pos)
          [] k = "blank"   -> Blank(m, g.pos)
          [] OTHER         -> Stray(m, g.line, g.pos)

\* the run from m to its end (every turn consumes input, or ends the run)
RECURSIVE Run(_, _)
Run(f, m) == IF m.pc # "top" THEN m
             ELSE CHOOSE res \in {Run(f, n) : n \in {Step(f, m)}} : TRUE

\* parse_contours(fileobj): what the caller gets
Outcome(m) == IF m.pc = "done" THEN [pc |-> "done", asc |-> m.asc]
              ELSE [pc |-> m.pc, err |-> m.err]

parse_contours(f) == Outcome(Run(f, Start))

(***************************************************************************)
(* Input files                                                             *)
(***************************************************************************)
MaxParses == 2
MaxRecords == 3
MaxLines == 3
MaxContours == 4
MaxPoints == 3

SeqsUpTo(S, n) == UNION {[1..k -> S] : k \in 0..n}

Sp(s) == IF s = << >> THEN << >> ELSE s \o <<SP>>

Fact1 == <<"S1", SP, QT, "n1", QT, SP, "-3", SP, "2", SP, "1">>
Fact2 == <<"S2", SP, QT, "n2", QT, SP, "4", SP, "5", SP, "6">>
Point1 == <<LP, "1", SP, "2", SP, "-3", SP, "0", SP, "S1", RP>>
Point2 == <<LP, SP, "4", SP, "5", SP, "6", SP, "0", SP, "S1", RP>>
Point3 == <<LP, "-1", SP, "0", SP, "3", SP, "2", SP, "S2", RP>>
HeaderA == <<LP, QT, "A", QT>>
HeaderB == <<LP, QT, "B", QT>>
ClosedProp == <<LP, "Closed", RP>>
ColorProp == <<LP, "Color", SP, "RGB", RP>>
Comment == <<SP, SC, SP, "x">>

\* whole records, each on one line
RecSect1 == <<LP, "Sections", SP>> \o Fact1 \o <<RP>>
RecSect2 == <<LP, "Sections", SP>> \o Fact2 \o <<SP, RP>>
RecContA1 == HeaderA \o <<SP>> \o ClosedProp \o <<SP>> \o Point1 \o <<SP>> \o Point2 \o <<SP, RP>>
RecContB2 == HeaderB \o <<SP>> \o ColorProp \o <<SP>> \o Point3 \o <<RP>>
RecContA2 == HeaderA \o <<SP>> \o Point3 \o <<SP>> \o Point3 \o <<SP>> \o Point3 \o <<SP, RP>>
RecContB1 == HeaderB \o <<SP>> \o Point2 \o <<SP, RP>>
RecContA3 == HeaderA \o <<SP>> \o ColorProp \o <<SP>> \o ClosedProp \o <<SP>> \o Point1 \o <<SP, RP>>
RecDesc == <<LP, "Description", SP, "d1", SP, "d2", RP>>
RecOther == <<LP, "Other", SP, "x", RP>>

Records == {RecSect1, RecSect2, RecContA1, RecContB2, RecContB1, RecDesc, RecOther}

\* the records one per line (the odd ones with a trailing comment), or all on
\* one line
OnePerLine(rs) == [i \in 1..Len(rs) |-> IF i % 2 = 1 THEN rs[i] \o Comment ELSE rs[i]]

RECURSIVE Joined(_)
Joined(rs) == IF rs = << >> THEN << >>
              ELSE IF Len(rs) = 1 THEN rs[1]
              ELSE rs[1] \o <<SP>> \o Joined(Tail(rs))

RecordFiles == {OnePerLine(rs) : rs \in SeqsUpTo(Records, MaxRecords)}
               \cup {<<Joined(rs)>> : rs \in SeqsUpTo(Records, MaxRecords)}

\* a Sections record followed by contours, one per line
Contours == {RecContA1, RecContB2, RecContA2, RecContB1}

ContourFiles == {<<RecSect1>> \o cs : cs \in SeqsUpTo(Contours, MaxContours)}
                \cup {<<RecSect1, RecSect2>> \o cs : cs \in SeqsUpTo(Contours, MaxContours)}

\* physical lines of records that span several lines
Lines == { << >>,
           Comment,
           <<LP, "Description", SP, "d1">>,
           <<"d2">>,
           <<RP>>,
           <<LP, "Sections", SP>> \o Fact1,
           <<SP>> \o Fact2 \o <<RP>> \o Comment,
           RecSect1 \o <<SP>> \o HeaderA \o <<SP>> \o Point1,
           Point2,
           ClosedProp,
           <<RP>> \o HeaderB \o <<SP>> \o Point3,
           <<LP, "Other", SP, LP, "x", RP>> }

LineFiles == SeqsUpTo(Lines, MaxLines)

\* one Sections record holding one section fact, over a range of values
FactNums == {"-3", "-1", "0", "2", "5"}

Fact(k, n, f1, f2, f3) == <<k, SP, QT, n, QT, SP, f1, SP, f2, SP, f3>>

FactFiles == {<<(<<LP, "Sections", SP>> \o Fact(k, "n1", f1, f2, f3)) \o <<RP>>>> :
                  k \in {"S1", "S2"}, f1 \in FactNums, f2 \in FactNums, f3 \in FactNums}

\* a numeric-leading fragment of a contour that is no point record
BadPoint == <<LP, "1", SP, "2", RP>>

RecContA4 == HeaderA \o <<SP>> \o Point1 \o <<SP>> \o BadPoint \o <<SP, RP>>
RecContB3 == HeaderB \o <<SP>> \o BadPoint \o <<SP>> \o Point2 \o <<SP, RP>>

\* a Sections record followed by contours that hold such a fragment, or a
\* Color and a Closed property; one per line, or all on one line
FragmentFiles ==
    {<<RecSect1>> \o cs :
        cs \in SeqsUpTo({RecContA4, RecContB3, RecContB1, RecContA3}, MaxRecords - 1)}
    \cup {<<Joined(<<RecSect1>> \o cs)>> :
        cs \in SeqsUpTo({RecContA4, RecContB3, RecContB1, RecContA3}, MaxRecords - 1)}

\* an unrecognized block that holds a bracketed sub-block, on one line or
\* with its outer close bracket on a line of its own
NestedOpen == <<LP, "Other", SP, LP, "x", RP>>

NestedOneLine == <<LP, "Other", SP, LP, "x", RP, SP, "y", RP>>

NestedBlocks == {<<NestedOneLine>>, <<NestedOpen, <<RP>>>>}

\* such a block between records
NestedFiles == {a \o b \o c : a \in SeqsUpTo({RecSect1, RecDesc}, 1),
                                b \in NestedBlocks,
                                c \in SeqsUpTo({RecContB1, RecDesc}, MaxRecords - 2)}

\* Color records, as the parts that stand on one line each, with the
\* content between the record's name and its close bracket: on one line,
\* closed on the next line, with the value on the next line, and with a
\* bracketed group in the value
ColorForms ==
    { [parts |-> <<ColorProp>>, content |-> <<"RGB">>],
      [parts |-> <<<<LP, "Color", SP, "RGB">>, <<RP>>>>, content |-> <<"RGB">>],
      [parts |-> <<<<LP, "Color">>, <<"RGB", RP>>>>, content |-> <<"RGB">>],
      [parts |-> <<<<LP, "Color", SP, "RGB", SP, LP, "2", RP, RP>>>>,
       content |-> <<"RGB", SP, LP, "2", RP>>] }

\* the lines of a contour that holds a Color record and then a point
ColorContour(header, parts) ==
    IF Len(parts) = 1
    THEN <<header \o <<SP>> \o parts[1] \o <<SP>> \o Point1 \o <<SP, RP>>>>
    ELSE <<header \o <<SP>> \o parts[1], parts[2] \o <<SP>> \o Point1 \o <<SP, RP>>>>

\* a Sections record, such a contour, and the records after it
ColorFiles == {<<RecSect1>> \o ColorContour(h, v.parts) \o c :
                  h \in {HeaderA, HeaderB}, v \in ColorForms,
                  c \in SeqsUpTo({RecContB1}, MaxRecords - 2)}

\* the section facts of a Sections block, in the order of the block
FactSeqs == SeqsUpTo({Fact1, Fact2}, MaxRecords) \ {<< >>}

\* the lines of a Sections block that holds the facts fs one per line: the
\* first on the line of the (Sections token or on the line after it, the last
\* on the line of the closing bracket or on the line before it
SectionsBlock(fs, first, last) ==
    LET head  == IF first THEN <<LP, "Sections", SP>> \o fs[1] ELSE <<LP, "Sections">>
        own   == IF first THEN Tail(fs) ELSE fs
        lines == <<head>> \o [i \in 1..Len(own) |-> <<SP>> \o own[i]]
    IN  IF last THEN [lines EXCEPT ![Len(lines)] = @ \o <<RP>>]
        ELSE Append(lines, <<RP>>)

\* the Sections block that holds the facts fs on one line
SectionsLine(fs) == <<(<<LP, "Sections", SP>> \o Joined(fs)) \o <<RP>>>>

SectionsFiles == {SectionsBlock(fs, first, last) :
                     fs \in FactSeqs, first \in BOOLEAN, last \in BOOLEAN}
                 \cup {SectionsLine(fs) : fs \in FactSeqs}

Files == RecordFiles \cup ContourFiles \cup LineFiles \cup FactFiles \cup FragmentFiles
         \cup NestedFiles \cup ColorFiles \cup SectionsFiles

(***************************************************************************)
(* The geometry engine (mbfio.polygons).  A coordinate is an integer that  *)
(* counts halves: k stands for the float k / Unit.  The arithmetic of      *)
(* is_inside_slow is done exactly, each quotient n / d carried as the pair *)
(* of its numerator and denominator.  An array is a record of its shape    *)
(* and of its entries, indexed from 0 as in numpy.                         *)
(***************************************************************************)
Unit == 2

Last(s) == s[Len(s)]

ButLast(s) == SubSeq(s, 1, Len(s) - 1)

\* the index tuples of an array of shape sh
RECURSIVE Indices(_)
Indices(sh) == IF sh = << >> THEN {<< >>}
               ELSE {<<i>> \o r : i \in 0..(Head(sh) - 1), r \in Indices(Tail(sh))}

\* np.asarray of a list of points
asarray(ps) == [shape |-> <<Len(ps), Len(ps[1])>>,
                at |-> [b \in Indices(<<Len(ps), Len(ps[1])>>) |-> ps[b[1] + 1][b[2] + 1]]]

\* np.indices(shape): an array of shape (len(shape), *shape) whose entry
\* [k, i0, i1, ...] is the grid coordinate i_k
np_indices(sh) == [shape |-> <<Len(sh)>> \o sh,
                   at |-> [b \in Indices(<<Len(sh)>> \o sh) |-> Unit * b[b[1] + 2]]]

\* points[b]: the vector along the last axis
PointAt(A, b) == [j \in 1..Last(A.shape) |-> A.at[b \o <<j - 1>>]]

\* faces = [(i, i+1) for i in range(len(vertices)-1)] + [(len(vertices)-1, 0)]
SynthFaces(nv) == [i \in 1..nv |-> IF i < nv THEN <<i - 1, i>> ELSE <<nv - 1, 0>>]

RECURSIVE DotTo(_, _, _)
DotTo(a, b, n) == IF n = 0 THEN 0 ELSE a[n] * b[n] + DotTo(a, b, n - 1)

\* np.dot(a, b)
Dot(a, b) == DotTo(a, b, Len(a))

Minus(a, b) == [i \in 1..Len(a) |-> a[i] - b[i]]

IsZero(a) == \A i \in 1..Len(a) : a[i] = 0

\* vertices[face]: an index i is taken from the end when negative, and must
\* lie in -len(vertices) .. len(vertices)-1
IndexInRange(vertices, i) == 0 - Len(vertices) <= i /\ i < Len(vertices)

FaceVertices(vertices, face) ==
    [i \in 1..Len(face) |->
        vertices[(IF face[i] < 0 THEN face[i] + Len(vertices) ELSE face[i]) + 1]]

\* the normal vector of a face: u x v in 3D, (-u[1], u[0]) in 2D
Normal(dim, fv) ==
    LET u == Minus(fv[2], fv[1])
    IN  IF dim = 3
        THEN LET w == Minus(fv[3], fv[1])
             IN <<u[2] * w[3] - u[3] * w[2], u[3] * w[1] - u[1] * w[3],
                  u[1] * w[2] - u[2] * w[1]>>
        ELSE <<0 - u[2], u[1]>>

\* what the turn of the loop over faces does with the next face of call g:
\* it raises, skips the face (continue), or counts crossings
FaceKind(g) ==
    LET face == g.faces[g.nface + 1]
        dim  == Last(g.points.shape)
        vdim == Len(g.vertices[1])
        fv   == FaceVertices(g.vertices, face)
    IN  IF \E i \in 1..Len(face) : ~IndexInRange(g.vertices, face[i]) THEN "IndexError"
        ELSE IF dim = 3 /\ (Len(face) < 3 \/ vdim < 3) THEN "IndexError"
        ELSE IF dim # 3 /\ dim # 2 THEN "AssertionError"
        ELSE IF Len(face) < 2 \/ vdim < 2 THEN "IndexError"
        ELSE IF ~IsZero(Normal(dim, fv)) /\ Dot(g.ray, Normal(dim, fv)) = 0 THEN "continue"
        ELSE IF vdim # dim THEN "ValueError"
        ELSE IF IsZero(Normal(dim, fv)) THEN "nan"
        ELSE "cross"

\* the ray from point p, shot along -ray, crosses the face: the parameter
\* t = n / d of the intersection is >= 0 and the intersection, in the frame
\* of the face, is within its extent
Crosses(dim, p, fv, ray) ==
    LET o   == fv[1]
        u   == Minus(fv[2], fv[1])
        nrm == Normal(dim, fv)
        n   == Dot(nrm, Minus(p, o))
        d   == Dot(nrm, ray)
        \* d times (p + t * (-ray) - origin)
        x   == [i \in 1..Len(p) |-> (p[i] - o[i]) * d - n * ray[i]]
        xu  == Dot(x, u)
    IN  /\ n * d >= 0
        /\ IF dim = 3
           THEN LET xv == Dot(x, Minus(fv[3], fv[1]))
                IN  /\ xu * d >= 0 /\ xv * d > 0
                    /\ (xu + xv) * d < d * d * Unit * Unit
           ELSE /\ xu * d >= 0 /\ xu * d < d * d * Dot(u, u)

\* a loop that takes every point for crossed by a face of zero normal
CountFaceNanCrosses(g) ==
    LET fv == FaceVertices(g.vertices, g.faces[g.nface + 1])
    IN  [b \in DOMAIN g.cross |->
            IF FaceKind(g) = "nan"
               \/ (FaceKind(g) = "cross"
                   /\ Crosses(Last(g.points.shape), PointAt(g.points, b), fv, g.ray))
            THEN g.cross[b] + 1 ELSE g.cross[b]]

\* cross[halfmask] += intersection, for the next face of call g
CountFace(g) ==
    LET fv == FaceVertices(g.vertices, g.faces[g.nface + 1])
    IN  [b \in DOMAIN g.cross |->
            IF FaceKind(g) = "cross"
               /\ Crosses(Last(g.points.shape), PointAt(g.points, b), fv, g.ray)
            THEN g.cross[b] + 1 ELSE g.cross[b]]

\* cross = (cross & 1) > 0
Parity(g) == [shape |-> ButLast(g.points.shape),
              at |-> [b \in DOMAIN g.cross |-> g.cross[b] % 2 = 1]]

\* is_inside_slow(points, vertices, faces) with the ray it has drawn: the
\* locals at the start of the loop over faces
Enter(op, sh, points, vertices, faces, ray) ==
    [op |-> op, shape |-> sh, points |-> points, vertices |-> vertices,
     faces |-> faces, ray |-> ray,
     cross |-> [b \in Indices(ButLast(points.shape)) |-> 0], nface |-> 0]

NoArray == [shape |-> << >>, at |-> << >>]

NoCall == [op |-> "none", shape |-> << >>, points |-> NoArray, vertices |-> << >>,
           faces |-> << >>, ray |-> << >>, cross |-> << >>, nface |-> 0]

GeoIdle ==
    /\ geo = NoCall /\ gpc = "idle" /\ gerr = "" /\ mask = NoArray
    /\ before = NoArray /\ ncalls = 0

(***************************************************************************)
(* Calls of the geometry engine                                            *)
(***************************************************************************)
MaxBatch == 2
MaxGrid == 4
MaxCalls == 2

\* the components np.random.randn can give the ray
RayValues == {-2, -1, 1, 2}

Rays(dim) == [1..dim -> RayValues]

\* the square [(0,0),(1,0),(1,1),(0,1)], the square [(1,1),(3,1),(3,3),(1,3)]
\* and the triangle [(0,0),(2,0),(2,2)]
UnitSquare == <<<<0, 0>>, <<2, 0>>, <<2, 2>>, <<0, 2>>>>
Square13 == <<<<2, 2>>, <<6, 2>>, <<6, 6>>, <<2, 6>>>>
Triangle == <<<<0, 0>>, <<4, 0>>, <<4, 4>>>>

\* the tetrahedron on the origin and the three points at 2 on the axes
Tetra == <<<<0, 0, 0>>, <<4, 0, 0>>, <<0, 4, 0>>, <<0, 0, 4>>>>
TetraFaces == <<<<0, 1, 2>>, <<0, 1, 3>>, <<0, 2, 3>>, <<1, 2, 3>>>>

\* (0.5,0.5), (1.5,0.5), (1,0.5) on an edge and the vertex (1,1)
QueryPoints == {<<1, 1>>, <<3, 1>>, <<2, 1>>, <<2, 2>>}

QueryPoints3 == {<<1, 1, 1>>, <<6, 1, 1>>}

\* the faces of the unit square, the last one ending at vertex index i
SquareFaces(i) == <<<<0, 1>>, <<1, 2>>, <<2, 3>>, <<3, i>>>>

\* the unit square with its vertex (1,0) given twice: the edge between the
\* two is a face of two equal vertices
DoubledSquare == <<<<0, 0>>, <<2, 0>>, <<2, 0>>, <<2, 2>>, <<0, 2>>>>

\* the faces of the unit square and, among them, a face from vertex 1 to
\* vertex 1
SquareFacesTwice == <<<<0, 1>>, <<1, 1>>, <<1, 2>>, <<2, 3>>, <<3, 0>>>>

\* the faces of the tetrahedron and two faces that name a vertex twice
TetraFacesTwice == <<<<0, 1, 2>>, <<0, 0, 1>>, <<0, 1, 3>>, <<0, 2, 3>>, <<0, 1, 1>>, <<1, 2, 3>>>>

\* vertex indices for a list of 4 vertices: in range, too large, negative
FaceIndices == {0, 4, -4, -5}

\* faces is None, or a list
NoFaces == [given |-> FALSE, list |-> << >>]

Given(fs) == [given |-> TRUE, list |-> fs]

\* the points of the 4x4 grid, row by row
GridPoints == [n \in 1..16 |-> <<Unit * ((n - 1) \div 4), Unit * ((n - 1) % 4)>>]

IsInsideCalls ==
    {[points |-> asarray(ps), vertices |-> UnitSquare, faces |-> fs] :
        ps \in SeqsUpTo(QueryPoints, MaxBatch) \ {<< >>},
        fs \in {NoFaces} \cup {Given(SquareFaces(i)) : i \in FaceIndices}}
    \cup {[points |-> asarray(ps), vertices |-> Triangle, faces |-> NoFaces] :
        ps \in SeqsUpTo(QueryPoints, MaxBatch) \ {<< >>}}
    \cup {[points |-> asarray(ps), vertices |-> Tetra, faces |-> Given(TetraFaces)] :
        ps \in SeqsUpTo(QueryPoints3, MaxBatch) \ {<< >>}}
    \cup {[points |-> asarray(GridPoints), vertices |-> Square13, faces |-> NoFaces]}
    \cup {[points |-> asarray(ps), vertices |-> DoubledSquare, faces |-> NoFaces] :
        ps \in SeqsUpTo(QueryPoints, MaxBatch) \ {<< >>}}
    \cup {[points |-> asarray(ps), vertices |-> UnitSquare, faces |-> Given(SquareFacesTwice)] :
        ps \in SeqsUpTo(QueryPoints, MaxBatch) \ {<< >>}}
    \cup {[points |-> asarray(ps), vertices |-> Tetra, faces |-> Given(TetraFacesTwice)] :
        ps \in SeqsUpTo(QueryPoints3, MaxBatch) \ {<< >>}}

RasterizeCalls ==
    {[shape |-> sh, vertices |-> vs, faces |-> NoFaces] :
        sh \in [1..2 -> 1..MaxGrid], vs \in {UnitSquare, Square13}}
    \cup {[shape |-> sh, vertices |-> Tetra, faces |-> Given(TetraFaces)] :
        sh \in [1..3 -> 1..MaxGrid]}

\* faces of is_inside after `if faces is None`
FacesOf(c) == IF c.faces.given THEN c.faces.list ELSE SynthFaces(Len(c.vertices))

\* is_inside(points, vertices, faces) up to the loop over faces
CallIsInside ==
    /\ gpc = "idle"
    /\ \E c \in IsInsideCalls : \E r \in Rays(Last(c.points.shape)) :
           geo' = Enter("is_inside", << >>, c.points, c.vertices, FacesOf(c), r)
    /\ gpc' = "faces" /\ ncalls' = 1
    /\ UNCHANGED <<gerr, mask, before>>
    /\ UNCHANGED <<parserVars, vxVars, stereoVars>>

\* rasterize(shape, vertices, faces): is_inside(np.indices(shape), ...)
CallRasterize ==
    /\ gpc = "idle"
    /\ \E c \in RasterizeCalls : \E r \in Rays(Last(c.shape)) :
           geo' = Enter("rasterize", c.shape, np_indices(c.shape), c.vertices, FacesOf(c), r)
    /\ gpc' = "faces" /\ ncalls' = 1
    /\ UNCHANGED <<gerr, mask, before>>
    /\ UNCHANGED <<parserVars, vxVars, stereoVars>>

\* the same call once more, with the ray it draws
CallAgain ==
    /\ gpc = "returned" /\ ncalls < MaxCalls
    /\ \E r \in Rays(Last(geo.points.shape)) :
           geo' = Enter(geo.op, geo.shape, geo.points, geo.vertices, geo.faces, r)
    /\ gpc' = "faces" /\ ncalls' = ncalls + 1 /\ before' = mask
    /\ UNCHANGED <<gerr, mask>>
    /\ UNCHANGED <<parserVars, vxVars, stereoVars>>

\* a turn of `for face in faces` that raises
FaceRaises ==
    /\ gpc = "faces" /\ geo.nface < Len(geo.faces)
    /\ FaceKind(geo) \in {"IndexError", "AssertionError", "ValueError"}
    /\ gpc' = "raised" /\ gerr' = FaceKind(geo)
    /\ UNCHANGED <<geo, mask, before, ncalls>>
    /\ UNCHANGED <<parserVars, vxVars, stereoVars>>

\* a turn that finds the face colinear with the ray: continue
SkipFace ==
    /\ gpc = "faces" /\ geo.nface < Len(geo.faces)
    /\ FaceKind(geo) = "continue"
    /\ geo' = [geo EXCEPT !.nface = @ + 1]
    /\ UNCHANGED <<gpc, gerr, mask, before, ncalls>>
    /\ UNCHANGED <<parserVars, vxVars, stereoVars>>

\* a turn that counts the crossings of the face
CrossFace ==
    /\ gpc = "faces" /\ geo.nface < Len(geo.faces)
    /\ FaceKind(geo) \in {"cross", "nan"}
    /\ geo' = [geo EXCEPT !.nface = @ + 1, !.cross = CountFace(geo)]
    /\ UNCHANGED <<gpc, gerr, mask, before, ncalls>>
    /\ UNCHANGED <<parserVars, vxVars, stereoVars>>

\* after the last face: return the parity of the counts
Return ==
    /\ gpc = "faces" /\ geo.nface = Len(geo.faces)
    /\ mask' = Parity(geo) /\ gpc' = "returned"
    /\ UNCHANGED <<geo, gerr, before, ncalls>>
    /\ UNCHANGED <<parserVars, vxVars, stereoVars>>

(***************************************************************************)
(* The voxel size of a reader (read_contours_asc, read_markers): a number  *)
(* or a sequence of numbers, made a list of length 3                       *)
(***************************************************************************)
MaxVx == 4

\* contours and markers of an XML object
MaxXContours == 2

MaxXMarkers == 2

\* voxel sizes
VxValues == {1, 2, 3}

\* the argument: a number (num), or a sequence (seq)
VxNumber(n) == [isnum |-> TRUE, num |-> n, seq |-> << >>]

VxSequence(q) == [isnum |-> FALSE, num |-> 0, seq |-> q]

VxArgs == {VxNumber(n) : n \in VxValues} \cup {VxSequence(q) : q \in SeqsUpTo(VxValues, MaxVx)}

\* s * n of Python, for a list s
RECURSIVE Times(_, _)
Times(s, n) == IF n <= 0 THEN << >> ELSE s \o Times(s, n - 1)

\* vx[:1]
FirstSlice(s) == IF s = << >> THEN << >> ELSE <<s[1]>>

\* vx[-1:]
LastSlice(s) == IF s = << >> THEN << >> ELSE <<s[Len(s)]>>

\* the list filled up with its first element
PadWithFirst(s) == s \o Times(FirstSlice(s), 3 - Len(s))

\* vx = vx + vx[-1:] * max(0, 3 - len(vx))
Pad(s) == s \o Times(LastSlice(s), IF 3 - Len(s) > 0 THEN 3 - Len(s) ELSE 0)

\* vx[:3]
Clip(s) == SubSeq(s, 1, IF Len(s) < 3 THEN Len(s) ELSE 3)

\* if isinstance(vx, Number): vx = [vx];  vx = list(vx)
AsList(a) == IF a.isnum THEN <<a.num>> ELSE a.seq

\* ensure vx is a list of length 3
EnsureLength3(a) == Clip(Pad(AsList(a)))

VxIdle == vxarg = VxNumber(1) /\ vx = << >> /\ vxpc = "idle"

NormaliseVx ==
    /\ vxpc = "given"
    /\ vx' = EnsureLength3(vxarg) /\ vxpc' = "list"
    /\ UNCHANGED vxarg
    /\ UNCHANGED <<parserVars, geoVars, stereoVars>>

(***************************************************************************)
(* mbfio.xml.parse_stereo on a pre-loaded XML object.  Coordinates are     *)
(* integers that count halves of a micrometre, so that the half voxel of   *)
(* the affine matrix is exact; the image of the object has scale 1 and     *)
(* origin 0, which makes the division by the scale exact as well.          *)
(***************************************************************************)
SITE_KEYS == {"TopRight", "LeftBottom"}

\* section ids of the points of the object
Sids == {"S1", "S2"}

\* a <point> element
XPoint(x, y, z, sid) == [x |-> x, y |-> y, z |-> z, sid |-> sid]

\* list(map(float, [point[d] for d in dims]))
get_point(p) == <<p.x, p.y, p.z>>

\* vox2mbf of _get_vox2mbf: None unless the space or the unit is voxels;
\* else the diagonal and the last column of make_vox2mbf(scale, origin),
\* the last column in halves
get_vox2mbf(o, space, unit) ==
    IF space = "voxel" \/ unit = "voxel"
    THEN LET image == o.images[1]
             s == image.scale
             c == image.coord
         IN [none |-> FALSE,
             diag |-> <<s[1], -s[2], s[3]>>,
             shift |-> <<c[1] + 2 * s[1], c[2] - 2 * s[2], c[3] + s[3]>>]
    ELSE [none |-> TRUE, diag |-> << >>, shift |-> << >>]

\* np.linalg.inv(vox2mbf) of _convert_coord raises when vox2mbf is None
ConvertRaises(vox2mbf) == vox2mbf.none

Sign(n) == IF n < 0 THEN -1 ELSE 1

\* _convert_coord of one point, space 'voxel' and unit 'um': the point
\* goes through mbf2vox and is multiplied by the absolute scale
convert_point(p, vox2mbf) ==
    [i \in 1..3 |-> (p[i] - vox2mbf.shift[i]) * Sign(vox2mbf.diag[i])]

\* _convert_coord of an array of points
convert_coord(points, vox2mbf) ==
    [i \in 1..Len(points) |-> convert_point(points[i], vox2mbf)]

\* np.asarray([_get_point(p) for p in contour['point']]), converted
PointsOf(contour, vox2mbf) ==
    convert_coord([i \in 1..Len(contour.point) |-> get_point(contour.point[i])],
                  vox2mbf)

\* the filter of xml.parse_contours: site contours and shapes that are not
\* contours are left out
IsRoi(contour) == contour.name \notin SITE_KEYS /\ contour.shape = "Contour"

\* xml.parse_contours: [err, val]; val is the list of contours
RECURSIVE xml_contours(_, _)
xml_contours(cs, vox2mbf) ==
    IF cs = << >> THEN [err |-> "", val |-> << >>]
    ELSE LET rest == xml_contours(ButLast(cs), vox2mbf)
             contour == Last(cs)
         IN IF rest.err # "" THEN rest
            ELSE IF ~IsRoi(contour) THEN rest
            ELSE IF ConvertRaises(vox2mbf) THEN [err |-> "LinAlgError", val |-> << >>]
            ELSE [err |-> "",
                  val |-> Append(rest.val,
                                 [name |-> contour.name,
                                  closed |-> contour.closed,
                                  color |-> contour.color,
                                  resolution |-> contour.resolution,
                                  sid |-> contour.point[1].sid,
                                  points |-> PointsOf(contour, vox2mbf)])]

parse_xml_contours(o, space, unit) ==
    xml_contours(o.contour, get_vox2mbf(o, space, unit))

\* the first loop of parse_sites: per section id, the TopRight and the
\* LeftBottom point arrays in the order of the object
RECURSIVE native_sites(_, _)
native_sites(cs, vox2mbf) ==
    IF cs = << >> THEN [err |-> "", val |-> << >>]
    ELSE LET rest == native_sites(ButLast(cs), vox2mbf)
             contour == Last(cs)
             sid == contour.point[1].sid
             had == IF sid \in DOMAIN rest.val THEN rest.val[sid]
                    ELSE [TopRight |-> << >>, LeftBottom |-> << >>]
             now == IF contour.name = "TopRight"
                    THEN [had EXCEPT !.TopRight = Append(@, PointsOf(contour, vox2mbf))]
                    ELSE [had EXCEPT !.LeftBottom = Append(@, PointsOf(contour, vox2mbf))]
         IN IF rest.err # "" THEN rest
            ELSE IF contour.name \notin SITE_KEYS THEN rest
            ELSE IF ConvertRaises(vox2mbf) THEN [err |-> "LinAlgError", val |-> << >>]
            ELSE [err |-> "", val |-> (sid :> now) @@ rest.val]

\* np.stack of an empty list raises, and so does np.concatenate of the
\* TopRight stack with a LeftBottom stack of another length
StackRaises(site) == Len(site.TopRight) # Len(site.LeftBottom)

Abs(n) == IF n < 0 THEN -n ELSE n

\* 1 + the rank of v among the distinct values of the set: all_x[...]
RankIn(v, values) == 1 + Cardinality({w \in values : w < v})

\* the derived fields of one section's sites.  center is the sum of the
\* four corners (four times the mean), area is in quarters
derived(site) ==
    LET n == Len(site.TopRight)
        corners == [k \in 1..n |-> site.TopRight[k] \o <<site.LeftBottom[k][2]>>]
        xs == {corners[k][1][1] : k \in 1..n}
        ys == {corners[k][1][2] : k \in 1..n}
    IN [TopRight |-> site.TopRight,
        LeftBottom |-> site.LeftBottom,
        center |-> [k \in 1..n |->
                      [d \in 1..3 |-> corners[k][1][d] + corners[k][2][d]
                                      + corners[k][3][d] + corners[k][4][d]]],
        area |-> [k \in 1..n |->
                      Abs(corners[k][1][1] - corners[k][2][1])
                      * Abs(corners[k][2][2] - corners[k][3][2])],
        corners |-> corners,
        grid |-> [k \in 1..n |-> <<RankIn(corners[k][1][1], xs),
                                   RankIn(corners[k][1][2], ys)>>]]

\* xml.parse_sites: [err, val]; val maps a section id to its sites
parse_sites(o, space, unit) ==
    LET native == native_sites(o.contour, get_vox2mbf(o, space, unit))
    IN IF native.err # "" THEN native
       ELSE IF \E sid \in DOMAIN native.val : StackRaises(native.val[sid])
       THEN [err |-> "ValueError", val |-> << >>]
       ELSE [err |-> "", val |-> [sid \in DOMAIN native.val |-> derived(native.val[sid])]]

\* int() of the text of a site index
IntOf == ("0" :> 0) @@ ("1" :> 1) @@ ("2" :> 2)

\* i, j of the first property named Site, 0 and 0 without one
RECURSIVE SiteOf(_)
SiteOf(properties) ==
    IF properties = << >> THEN <<0, 0>>
    ELSE IF properties[1].name = "Site"
    THEN <<IntOf[properties[1].n[1]], IntOf[properties[1].n[2]]>>
    ELSE SiteOf(Tail(properties))

\* xml.parse_stereo_markers: [err, val]; val maps a section id to the
\* coordinates and the site indices of its markers
RECURSIVE stereo_markers(_, _)
stereo_markers(ms, vox2mbf) ==
    IF ms = << >> THEN [err |-> "", val |-> << >>]
    ELSE LET rest == stereo_markers(ButLast(ms), vox2mbf)
             marker == Last(ms)
             sid == marker.point[1].sid
             had == IF sid \in DOMAIN rest.val THEN rest.val[sid]
                    ELSE [coord |-> << >>, site |-> << >>]
             now == [coord |-> Append(had.coord,
                                      convert_point(get_point(marker.point[1]), vox2mbf)),
                     site |-> Append(had.site, SiteOf(marker.property))]
         IN IF rest.err # "" THEN rest
            ELSE IF ConvertRaises(vox2mbf) THEN [err |-> "LinAlgError", val |-> << >>]
            ELSE [err |-> "", val |-> (sid :> now) @@ rest.val]

parse_stereo_markers(o, space, unit) ==
    stereo_markers(o.marker, get_vox2mbf(o, space, unit))

\* d.setdefault(key, {}) and d[key][field] = value
WithField(sections, sid, field, value) ==
    LET had == IF sid \in DOMAIN sections THEN sections[sid] ELSE << >>
    IN (sid :> ((field :> value) @@ had)) @@ sections

\* the loop over the contours of parse_stereo
RECURSIVE AddContours(_, _)
AddContours(empty, contours) ==
    IF contours = << >> THEN empty
    ELSE LET before1 == AddContours(empty, ButLast(contours))
             contour == Last(contours)
             sid == contour.sid
             roi == contour.name
             had == IF sid \in DOMAIN before1.sections
                       /\ "contours" \in DOMAIN before1.sections[sid]
                    THEN before1.sections[sid]["contours"] ELSE << >>
             popped == [name |-> contour.name, closed |-> contour.closed,
                        color |-> contour.color,
                        resolution |-> contour.resolution,
                        points |-> contour.points]
         IN [description |-> before1.description,
             regions |-> IF roi \in DOMAIN before1.regions THEN before1.regions
                         ELSE (roi :> (1 + Cardinality(DOMAIN before1.regions)))
                              @@ before1.regions,
             sections |-> WithField(before1.sections, sid, "contours",
                                    Append(had, popped))]

\* a loop of parse_stereo that stores values[sid] under a field of each
\* section id of keys
RECURSIVE StoreAll(_, _, _, _)
StoreAll(sections, keys, values, field) ==
    IF keys = {} THEN sections
    ELSE LET sid == CHOOSE k \in keys : TRUE
         IN StoreAll(WithField(sections, sid, field, values[sid]),
                     keys \ {sid}, values, field)

\* for sid, subsites in sites.items(): ...['sites'] = subsites
StoreSites(sections, sites) == StoreAll(sections, DOMAIN sites, sites, "sites")

\* for sid, markers in sites.items(): ...['markers'] = markers
StoreMarkers(sections, sites, markers) ==
    StoreAll(sections, DOMAIN sites, sites, "markers")

\* the contours, the markers and the image of the objects
RoiContour(sid) ==
    [name |-> "A", shape |-> "Contour", closed |-> "true", color |-> "#FF0000",
     resolution |-> 1, point |-> <<XPoint(2, 4, 0, sid), XPoint(4, 4, 0, sid)>>]

TopRight(sid, k) ==
    [name |-> "TopRight", shape |-> "Contour", closed |-> "false",
     color |-> "#00FF00", resolution |-> 1,
     point |-> <<XPoint(4 * k + 2, 0, 2, sid), XPoint(4 * k, 4, 2, sid),
                 XPoint(4 * k + 4, 4, 2, sid)>>]

LeftBottom(sid, k) ==
    [name |-> "LeftBottom", shape |-> "Contour", closed |-> "false",
     color |-> "#00FF00", resolution |-> 1,
     point |-> <<XPoint(4 * k - 2, 0, 2, sid), XPoint(4 * k + 6, 0, 2, sid),
                 XPoint(4 * k + 4, 4, 2, sid), XPoint(4 * k + 6, 4, 2, sid)>>]

XContours == {RoiContour(sid) : sid \in Sids}
             \cup {TopRight(sid, 0) : sid \in Sids}
             \cup {LeftBottom(sid, 0) : sid \in Sids}
             \cup {TopRight("S1", 1)}

SiteProperty == [name |-> "Site", n |-> <<"1", "2">>]

XMarker(sid, properties) ==
    [point |-> <<XPoint(2, 2, 2, sid)>>, property |-> properties]

XMarkers == {XMarker("S1", << >>), XMarker("S1", <<SiteProperty>>),
             XMarker("S2", <<SiteProperty>>)}

XImage == [scale |-> <<1, 1, 1>>, coord |-> <<0, 0, 0>>]

XObjects ==
    {[description |-> "d", images |-> <<XImage>>, contour |-> cs, marker |-> ms] :
        cs \in SeqsUpTo(XContours, MaxXContours), ms \in SeqsUpTo(XMarkers, MaxXMarkers)}

Spaces == {"mbf", "voxel"}

NoInfo == [description |-> "", regions |-> << >>, sections |-> << >>]

NoObject == [description |-> "", images |-> << >>, contour |-> << >>, marker |-> << >>]

StereoIdle ==
    /\ xobj = NoObject /\ xspace = "mbf" /\ info = NoInfo
    /\ xsites = << >> /\ xpc = "idle" /\ xerr = ""

\* info = dict(...) and 1) Parse ROI contours
StereoContours ==
    /\ xpc = "contours"
    /\ LET contours == parse_xml_contours(xobj, xspace, "um")
       IN IF contours.err # ""
          THEN xpc' = "raised" /\ xerr' = contours.err /\ info' = info
          ELSE /\ xpc' = "sites" /\ xerr' = xerr
               /\ info' = AddContours([description |-> xobj.description,
                                       regions |-> << >>, sections |-> << >>],
                                      contours.val)
    /\ UNCHANGED <<xobj, xspace, xsites>>
    /\ UNCHANGED <<parserVars, geoVars, vxVars>>

\* 2) Parse sites
StereoSites ==
    /\ xpc = "sites"
    /\ LET sites == parse_sites(xobj, xspace, "um")
       IN IF sites.err # ""
          THEN xpc' = "raised" /\ xerr' = sites.err /\ info' = info
               /\ xsites' = xsites
          ELSE /\ xpc' = "markers" /\ xerr' = xerr
               /\ xsites' = sites.val
               /\ info' = [info EXCEPT !.sections = StoreSites(@, sites.val)]
    /\ UNCHANGED <<xobj, xspace>>
    /\ UNCHANGED <<parserVars, geoVars, vxVars>>

\* 3) Parse markers, and return info
StereoMarkers ==
    /\ xpc = "markers"
    /\ LET markers == parse_stereo_markers(xobj, xspace, "um")
       IN IF markers.err # ""
          THEN xpc' = "raised" /\ xerr' = markers.err /\ info' = info
          ELSE /\ xpc' = "returned" /\ xerr' = xerr
               /\ info' = [info EXCEPT
                              !.sections = StoreMarkers(@, xsites, markers.val)]
    /\ UNCHANGED <<xobj, xspace, xsites>>
    /\ UNCHANGED <<parserVars, geoVars, vxVars>>

(***************************************************************************)
(* The state machine: one action per branch of the main loop               *)
(***************************************************************************)
Cur == [pos |-> pos, line |-> line, pc |-> pc, err |-> err, asc |-> asc,
        section |-> section, names |-> names, handled |-> handled, mid |-> mid]

Set(m) ==
    /\ pos' = m.pos /\ line' = m.line /\ pc' = m.pc /\ err' = m.err
    /\ asc' = m.asc /\ section' = m.section /\ names' = m.names
    /\ handled' = m.handled /\ mid' = m.mid
    /\ UNCHANGED <<file, parses, earlier>>
    /\ UNCHANGED <<geoVars, vxVars, stereoVars>>

Init ==
    /\ file \in Files
    /\ pos = Start.pos /\ line = Start.line /\ pc = Start.pc /\ err = Start.err
    /\ asc = Start.asc /\ section = Start.section /\ names = Start.names
    /\ handled = Start.handled
    /\ mid = Start.mid
    /\ parses = 1 /\ earlier = EmptyDoc
    /\ GeoIdle
    /\ VxIdle
    /\ StereoIdle

\* the line the current turn of the loop works on, and the cursor behind it
Here == Fetched(file, Cur)

EndOfInput ==
    /\ pc = "top" /\ Kind(file, Cur) = "eof"
    /\ Set([Cur EXCEPT !.pc = "done"])

ReadDescription ==
    /\ pc = "top" /\ Kind(file, Cur) = "desc"
    /\ Set(Description(file, Cur, Here.line, Here.pos))

ReadSections ==
    /\ pc = "top" /\ Kind(file, Cur) = "sect"
    /\ Set(Sections(file, Cur, Here.line, Here.pos))

ReadContour ==
    /\ pc = "top" /\ Kind(file, Cur) = "contour"
    /\ Set(Contour(file, Cur, Here.line, Here.pos))

ReadSkipBlock ==
    /\ pc = "top" /\ Kind(file, Cur) = "skip"
    /\ Set(SkipBlock(file, Cur, Here.line, Here.pos))

BlankLine ==
    /\ pc = "top" /\ Kind(file, Cur) = "blank"
    /\ Set(Blank(Cur, Here.pos))

StrayText ==
    /\ pc = "top" /\ Kind(file, Cur) = "stray"
    /\ Set(Stray(Cur, Here.line, Here.pos))

\* the second parse goes on reading where the first left the stream
RestartKeepsCursor(m) == [Start EXCEPT !.pos = m.pos]

\* a new call of parse_contours on the same text: the stream is read from
\* its start, asc and the line buffer are made anew
Restart(m) == Start

\* parse_contours is called again on the text that it has parsed
ParseAgain ==
    /\ pc = "done" /\ parses < MaxParses
    /\ pos' = Restart(Cur).pos /\ line' = Restart(Cur).line /\ pc' = Restart(Cur).pc
    /\ err' = Restart(Cur).err /\ asc' = Restart(Cur).asc
    /\ section' = Restart(Cur).section /\ names' = Restart(Cur).names
    /\ handled' = Restart(Cur).handled /\ mid' = Restart(Cur).mid
    /\ parses' = parses + 1 /\ earlier' = asc
    /\ UNCHANGED file
    /\ UNCHANGED <<geoVars, vxVars, stereoVars>>

Next ==
    \/ EndOfInput
    \/ ReadDescription
    \/ ReadSections
    \/ ReadContour
    \/ ReadSkipBlock
    \/ BlankLine
    \/ StrayText
    \/ ParseAgain

Spec == Init /\ [][Next]_vars

(***************************************************************************)
(* The state machine of the geometry engine                                *)
(***************************************************************************)
GeoInit ==
    /\ file = << >>
    /\ pos = Start.pos /\ line = Start.line /\ pc = Start.pc /\ err = Start.err
    /\ asc = Start.asc /\ section = Start.section /\ names = Start.names
    /\ handled = Start.handled
    /\ mid = Start.mid
    /\ parses = 1 /\ earlier = EmptyDoc
    /\ GeoIdle
    /\ VxIdle
    /\ StereoIdle

GeoNext ==
    \/ CallIsInside
    \/ CallRasterize
    \/ CallAgain
    \/ FaceRaises
    \/ SkipFace
    \/ CrossFace
    \/ Return

GeoSpec == GeoInit /\ [][GeoNext]_vars

(***************************************************************************)
(* The state machine of the voxel size                                     *)
(***************************************************************************)
VxInit ==
    /\ file = << >>
    /\ pos = Start.pos /\ line = Start.line /\ pc = Start.pc /\ err = Start.err
    /\ asc = Start.asc /\ section = Start.section /\ names = Start.names
    /\ handled = Start.handled
    /\ mid = Start.mid
    /\ parses = 1 /\ earlier = EmptyDoc
    /\ GeoIdle
    /\ vxarg \in VxArgs /\ vx = << >> /\ vxpc = "given"
    /\ StereoIdle

VxNext == NormaliseVx

VxSpec == VxInit /\ [][VxNext]_vars

(***************************************************************************)
(* The state machine of parse_stereo                                       *)
(***************************************************************************)
StereoInit ==
    /\ file = << >>
    /\ pos = Start.pos /\ line = Start.line /\ pc = Start.pc /\ err = Start.err
    /\ asc = Start.asc /\ section = Start.section /\ names = Start.names
    /\ handled = Start.handled
    /\ mid = Start.mid
    /\ parses = 1 /\ earlier = EmptyDoc
    /\ GeoIdle
    /\ VxIdle
    /\ xobj \in XObjects /\ xspace \in Spaces /\ info = NoInfo
    /\ xsites = << >> /\ xpc = "contours" /\ xerr = ""

StereoNext ==
    \/ StereoContours
    \/ StereoSites
    \/ StereoMarkers

StereoSpec == StereoInit /\ [][StereoNext]_vars

(***************************************************************************)
(* Properties                                                              *)
(***************************************************************************)
IsPrefix(s, t) == Len(s) <= Len(t) /\ SubSeq(t, 1, Len(s)) = s

IsSuffix(s, t) == Len(s) <= Len(t) /\ SubSeq(t, Len(t) - Len(s) + 1, Len(t)) = s

\* the file with line b put in after its first i lines
InsertAt(f, i, b) == SubSeq(f, 1, i) \o <<b>> \o SubSeq(f, i + 1, Len(f))

Ended == pc \in {"done", "error", "hang"}

EndOfInputInRecordFails ==
    ~(pc = "hang" /\ AtEOF(file, pos) /\ handled \in {"desc", "sect", "contour", "skip"})

\* C3: a contour that reaches its close bracket with points naming a section id
\* that no Sections record declared is accepted: no error, an entry for the id
\* exists and the contour is the last of its contours list
UndeclaredSectionAccepted ==
    (/\ handled = "contour" /\ section \in Words
     /\ pc \in {"top", "done"} \/ (pc = "error" /\ err = "KeyError"))
    => /\ pc # "error"
       /\ section \in DOMAIN asc.sections
       /\ asc.sections[section].contours # << >>
       /\ asc.sections[section].contours[Len(asc.sections[section].contours)].name
              = names[Len(names)]

\* C4: when a Sections block closes, every contour that a section held before
\* is still in that section's contours list, in the same order
SectionsMergeKeepsContours ==
    [][(pc = "top" /\ Kind(file, Cur) = "sect" /\ pc' = "top")
       => \A k \in DOMAIN asc.sections :
              asc.sections[k].contours # << >>
              => /\ k \in DOMAIN asc'.sections
                 /\ IsPrefix(asc.sections[k].contours, asc'.sections[k].contours)]_vars

\* C5: a blank line or a comment-only line put in at any position of an input
\* that parses changes neither the outcome nor the Document
BlankLinesTransparent ==
    pc = "done" =>
        \A i \in 0..Len(file) : \A b \in {<< >>, Comment} :
            parse_contours(InsertAt(file, i, b)) = Outcome(Cur)

\* where a close bracket of line l is followed on the line by a contour header
HeaderFollows(l, i) ==
    /\ l[i] = RP
    /\ LET j == SkipSP(l, i + 1) IN j + 1 <= Len(l) /\ l[j] = LP /\ l[j + 1] = QT

\* the line cut after each such close bracket
RECURSIVE SplitLine(_)
SplitLine(l) ==
    IF \E i \in 1..Len(l) : HeaderFollows(l, i)
    THEN LET i == CHOOSE i \in 1..Len(l) :
                      HeaderFollows(l, i) /\ \A j \in 1..(i - 1) : ~HeaderFollows(l, j)
         IN <<Upto(l, i)>> \o SplitLine(LStrip(From(l, i)))
    ELSE <<l>>

RECURSIVE SplitAll(_)
SplitAll(f) == IF f = << >> THEN << >> ELSE SplitLine(Head(f)) \o SplitAll(Tail(f))

\* the contours of a Document, section by section
RECURSIVE CountContours(_, _)
CountContours(sections, keys) ==
    IF keys = {} THEN 0
    ELSE LET k == CHOOSE k \in keys : TRUE
         IN Len(sections[k].contours) + CountContours(sections, keys \ {k})

RECURSIVE CountHeaders(_)
CountHeaders(f) ==
    IF f = << >> THEN 0
    ELSE Cardinality({i \in 1..(Len(Head(f)) - 1) : Head(f)[i] = LP /\ Head(f)[i + 1] = QT})
         + CountHeaders(Tail(f))

\* C6: when the close bracket of a contour is followed on its line by the
\* header of the next contour, the parse yields what it yields with the next
\* header on a line of its own: every contour is there, with its own points
ContoursOnOneLineSeparate ==
    (/\ Ended
     /\ SplitAll(file) # file
     /\ parse_contours(SplitAll(file)).pc = "done"
     /\ CountContours(parse_contours(SplitAll(file)).asc.sections,
                      DOMAIN parse_contours(SplitAll(file)).asc.sections)
            = CountHeaders(file))
    => Outcome(Cur) = parse_contours(SplitAll(file))

\* C7: when a Description, Sections or unrecognized block closes in the middle
\* of a physical line, the text after the close bracket is the line buffer of
\* the next turn, it is what that physical line held after the bracket, and
\* the run goes on from it as it would had the text been the next line
PostIsDispatched ==
    (pc = "top" /\ handled \in {"desc", "sect", "skip"} /\ mid # << >>)
    => /\ line = mid
       /\ pos >= 1 /\ IsSuffix(mid, strip_line(file[pos]))
       /\ Outcome(Run(file, Cur))
              = Outcome(Run(InsertAt(file, pos, mid), [Cur EXCEPT !.line = << >>]))

\* a Sections block has closed in the middle of a line and a contour follows
PostIsDispatchedWitness ==
    /\ pc = "top" /\ handled = "sect" /\ mid # << >>
    /\ Kind(file, Cur) = "contour"
    /\ Run(file, Cur).pc = "done"

(***************************************************************************)
(* Well-formed contour records on one line                                 *)
(***************************************************************************)
PointRecords == {Point1, Point2, Point3}

\* the section id a point record names
SectionOf(pt) == pt[Len(pt) - 1]

\* the fields of a point record
IsField(t) == t \notin {LP, RP, SP}

Fields(pt) == SelectSeq(pt, IsField)

RECURSIVE Spaced(_)
Spaced(xs) == IF xs = << >> THEN << >> ELSE <<SP>> \o Head(xs) \o Spaced(Tail(xs))

\* name, optional Color and Closed, the point records, the close bracket
ContourRecord(h, props, pts, close) == h \o Spaced(props) \o Spaced(pts) \o close

ContourShapes ==
    {[h |-> h, props |-> props, pts |-> pts, close |-> close] :
        h \in {HeaderA, HeaderB},
        props \in {<< >>, <<ColorProp>>, <<ClosedProp>>, <<ColorProp, ClosedProp>>},
        pts \in {ps \in SeqsUpTo(PointRecords, MaxPoints) :
                    ps # << >> /\ \A i \in 1..Len(ps) : SectionOf(ps[i]) = SectionOf(ps[1])},
        close \in {<<RP>>, <<SP, RP>>}}

TextOf(w) == ContourRecord(w.h, w.props, w.pts, w.close)

IsWellFormed(l) == \E w \in ContourShapes : TextOf(w) = l

ShapeOf(l) == CHOOSE w \in ContourShapes : TextOf(w) = l

\* the turn reads a well-formed contour that is the whole rest of its line and
\* whose section is declared
ReadsWellFormed ==
    /\ pc = "top" /\ Kind(file, Cur) = "contour"
    /\ IsWellFormed(Here.line)
    /\ SectionOf(ShapeOf(Here.line).pts[1]) \in DOMAIN asc.sections

\* the contour that the turn has put into its section
Added == LET cs == asc'.sections[SectionOf(ShapeOf(Here.line).pts[1])].contours
         IN cs[Len(cs)]

\* the text between the brackets of a point record
Inner(pt) == Strip(SubSeq(pt, 2, Len(pt) - 1))

PointStoredZNegated ==
    [][ReadsWellFormed =>
          LET pts == ShapeOf(Here.line).pts
          IN  /\ Len(Added.points) = Len(pts)
              /\ \A i \in 1..Len(pts) :
                     Added.points[i] = <<NumVal[Fields(pts[i])[1]], NumVal[Fields(pts[i])[2]],
                                         0 - NumVal[Fields(pts[i])[3]]>>]_vars

\* C9 as amended: a point record a b c d S is stored as (a, b, c), the
\* three coordinate fields unchanged
PointStoredAsRead ==
    [][ReadsWellFormed =>
          LET pts == ShapeOf(Here.line).pts
          IN  /\ Len(Added.points) = Len(pts)
              /\ \A i \in 1..Len(pts) :
                     Added.points[i] = <<NumVal[Fields(pts[i])[1]], NumVal[Fields(pts[i])[2]],
                                         NumVal[Fields(pts[i])[3]]>>]_vars

\* the record 1 2 -3 0 S1 has been stored
PointStoredWitness ==
    /\ pc \in {"top", "done"} /\ "S1" \in DOMAIN asc.sections
    /\ \E i \in 1..Len(asc.sections["S1"].contours) :
           /\ asc.sections["S1"].contours[i].points # << >>
           /\ asc.sections["S1"].contours[i].points[1] = <<1, 2, -3>>

\* a section fact  key "name" f1 f2 f3  stands at j in line l
FactAt(l, j) ==
    /\ j + 10 <= Len(l)
    /\ l[j + 6] \in Numerals /\ l[j + 8] \in Numerals /\ l[j + 10] \in Numerals
    /\ SubSeq(l, j, j + 10) = Fact(l[j], l[j + 3], l[j + 6], l[j + 8], l[j + 10])

Depth(t, i) == Cardinality({j \in 1..(i - 1) : t[j] = LP})
               - Cardinality({j \in 1..(i - 1) : t[j] = RP})

\* the lines of f after its first p, comments cut, one after the other
RECURSIVE RestText(_, _)
RestText(f, p) == IF AtEOF(f, p) THEN << >>
                  ELSE <<SP>> \o strip_line(f[p + 1]) \o RestText(f, p + 1)

\* where the bracket that t opens with is closed (0 when it is not)
MatchingClose(t) ==
    IF \E j \in 1..Len(t) : t[j] = RP /\ Depth(t, j) = 1
    THEN CHOOSE j \in 1..Len(t) :
             /\ t[j] = RP /\ Depth(t, j) = 1
             /\ \A i \in 1..(j - 1) : ~(t[i] = RP /\ Depth(t, i) = 1)
    ELSE 0

\* the record that the turn reads: from its open bracket to the matching close
OwnRecord == LET t == Here.line \o RestText(file, Here.pos)
             IN  Upto(t, MatchingClose(t))

\* a Closed marker stands in the body of record r
HasClosedMarker(r) ==
    \E i \in 2..(Len(r) - 1) : r[i] = LP /\ r[i + 1] = "Closed" /\ Depth(r, i) = 1

\* the contour that the turn has stored
Stored == LET cs == asc'.sections[section'].contours IN cs[Len(cs)]

\* C11: a contour is stored with closed = TRUE exactly when its own record,
\* from its open bracket to the matching close bracket, holds a Closed marker;
\* equal first and last points do not set the flag, nor does the marker of
\* another contour
ClosedIffOwnMarker ==
    [][(pc = "top" /\ Kind(file, Cur) = "contour" /\ pc' = "top")
       => (Stored.closed <=> HasClosedMarker(OwnRecord))]_vars

(***************************************************************************)
(* A Description over several lines                                        *)
(***************************************************************************)
\* the record the turn starts closes on the third physical line it reads
SpansThreeLines ==
    /\ ~Has(Here.line, RP)
    /\ Here.pos + 2 <= Len(file)
    /\ ~Has(strip_line(file[Here.pos + 1]), RP)
    /\ Has(strip_line(file[Here.pos + 2]), RP)

\* the same record on one line: its lines one after the other, a blank at
\* each line join, up to the close bracket
SingleLineForm == LET t == Here.line \o RestText(file, Here.pos)
                  IN  Upto(t, IndexOf(t, RP))

\* the content of the record is plain text: it opens no bracket
PlainContent == \A i \in 2..Len(SingleLineForm) : SingleLineForm[i] # LP

\* C12: a Description of plain text that spans three physical lines is stored
\* as the string that the same content on a single line is stored as
DescriptionLinesJoin ==
    [][(pc = "top" /\ Kind(file, Cur) = "desc" /\ SpansThreeLines /\ PlainContent)
       => /\ pc' = "top"
          /\ asc'.description = parse_contours(<<SingleLineForm>>).asc.description]_vars

(***************************************************************************)
(* Fragments that match no decoder                                         *)
(***************************************************************************)
\* line l without its tokens i..j
CutOut(l, i, j) == SubSeq(l, 1, i - 1) \o SubSeq(l, j + 1, Len(l))

\* the file with line i replaced by l
WithLine(f, i, l) == [f EXCEPT ![i] = l]

\* the file without line i
WithoutLine(f, i) == SubSeq(f, 1, i - 1) \o SubSeq(f, i + 1, Len(f))

\* where in f a numeric-leading contour fragment that is no point record
\* stands, a blank after it
BadPointsOf(f) ==
    UNION {{<<i, j>> : j \in {j \in 1..Len(f[i]) :
                                /\ j + Len(BadPoint) <= Len(f[i])
                                /\ SubSeq(f[i], j, j + Len(BadPoint) - 1) = BadPoint
                                /\ f[i][j + Len(BadPoint)] = SP}} : i \in 1..Len(f)}

\* the second line of f is a chunk of the Sections record that its first line
\* opens, and no section fact
BadChunkIn(f) ==
    /\ Len(f) >= 2
    /\ StartsWith(f[1], <<LP, "Sections">>) /\ ~Has(f[1], RP)
    /\ strip_line(f[2]) # << >> /\ ~Has(f[2], RP) /\ ~Has(f[2], LP)
    /\ ~parse_section(strip_line(f[2])).ok

\* the files that f becomes when one such fragment is taken out
WithoutFragment(f) ==
    {WithLine(f, ij[1], CutOut(f[ij[1]], ij[2], ij[2] + Len(BadPoint))) : ij \in BadPointsOf(f)}
    \cup (IF BadChunkIn(f) THEN {WithoutLine(f, 2)} ELSE {})

\* C13: a fragment that matches no decoder does not abort the parse: where the
\* input without the fragment parses, the input with it parses to the same
\* Document
MalformedFragmentSkipped ==
    Ended => \A g \in WithoutFragment(file) :
                 parse_contours(g).pc = "done" => Outcome(Cur) = parse_contours(g)

ReturnedFrom(vs) ==
    /\ gpc = "returned" /\ geo.op = "is_inside"
    /\ geo.vertices = vs /\ geo.faces = SynthFaces(Len(vs))

\* C14: on the square [(0,0),(1,0),(1,1),(0,1)] with faces absent, whatever
\* ray is drawn (none of the rays drawn is parallel to an edge; some pass
\* through a vertex), the point (0.5,0.5) is classified inside and the point
\* (1.5,0.5) outside
UnitSquareClassified ==
    ReturnedFrom(UnitSquare) =>
        \A b \in DOMAIN mask.at :
            /\ PointAt(geo.points, b) = <<1, 1>> => mask.at[b]
            /\ PointAt(geo.points, b) = <<3, 1>> => ~mask.at[b]

\* C15: a call repeated with the same points, vertices and faces returns the
\* classification that the call before it returned, for every point
SameInputSameOutput ==
    (gpc = "returned" /\ ncalls >= 2) => mask = before

\* is_inside of the single point p: the parity of the faces that the ray from
\* p crosses
Classified(p, vertices, faces, ray) ==
    Cardinality({k \in 1..Len(faces) :
        LET fv == FaceVertices(vertices, faces[k])
        IN  /\ ~IsZero(Normal(Len(p), fv))
            /\ Dot(ray, Normal(Len(p), fv)) # 0
            /\ Crosses(Len(p), p, fv, ray)}) % 2 = 1

\* C16: rasterize(shape, vertices, faces), the vertices of dimension
\* D = len(shape) in {2,3}, returns a mask of shape `shape` whose entry at
\* index (i, j[, k]) is the classification of the point (i, j[, k])
RasterizeIsGridOfIsInside ==
    (geo.op = "rasterize" /\ gpc \in {"returned", "raised"})
    => /\ gpc = "returned"
       /\ mask.shape = geo.shape
       /\ \A b \in Indices(geo.shape) :
              mask.at[b] = Classified([k \in 1..Len(b) |-> Unit * b[k]],
                                      geo.vertices, geo.faces, geo.ray)

\* the grid points that a mask sets
SetPoints(m) == {b \in DOMAIN m.at : m.at[b]}

\* C17: rasterize on the 4x4 grid with the polygon [(1,1),(3,1),(3,3),(1,3)]
\* returns a 4x4 mask with exactly 4 points set, whatever the ray: the points
\* of [1,3) x [1,3), as the half-open convention gives them
RasterizeSquareOnGrid ==
    (/\ geo.op = "rasterize" /\ geo.shape = <<4, 4>> /\ geo.vertices = Square13
     /\ gpc \in {"returned", "raised"})
    => /\ gpc = "returned"
       /\ mask.shape = <<4, 4>>
       /\ SetPoints(mask) = {<<1, 1>>, <<1, 2>>, <<2, 1>>, <<2, 2>>}

\* the count of points that is_inside sets among the 16 points of that grid
\* (what rasterize is to hand on) is 4
GridCountIsFour ==
    (/\ gpc = "returned" /\ geo.op = "is_inside" /\ geo.vertices = Square13
     /\ geo.points = asarray(GridPoints))
    => Cardinality(SetPoints(mask)) = 4

\* the faces of the call hold a vertex index outside 0 .. len(vertices)-1
HasInvalidIndex ==
    \E k \in 1..Len(geo.faces) : \E i \in 1..Len(geo.faces[k]) :
        geo.faces[k][i] < 0 \/ geo.faces[k][i] >= Len(geo.vertices)

\* C18: a call of is_inside whose faces hold a vertex index outside
\* 0 .. len(vertices)-1, too large or negative, ends with an index error and
\* returns no classification
InvalidFaceIndexRaises ==
    (geo.op = "is_inside" /\ gpc \in {"returned", "raised"} /\ HasInvalidIndex)
    => gpc = "raised" /\ gerr = "IndexError"

MarkersOfObject == parse_stereo_markers(xobj, xspace, "um").val

SitesOfObject == parse_sites(xobj, xspace, "um").val

HasField(sid, field) ==
    sid \in DOMAIN info.sections /\ field \in DOMAIN info.sections[sid]

\* C21: when parse_stereo has returned, each section id that has markers
\* holds under 'markers' the record (coord, site) that parse_stereo_markers
\* made for it, each section id that has sites holds under 'sites' its site
\* record, and no section holds the same data under both fields
MarkersStoredPerSection ==
    xpc = "returned" =>
        /\ \A sid \in DOMAIN MarkersOfObject :
               /\ HasField(sid, "markers")
               /\ info.sections[sid]["markers"] = MarkersOfObject[sid]
        /\ \A sid \in DOMAIN SitesOfObject :
               /\ HasField(sid, "sites")
               /\ info.sections[sid]["sites"] = SitesOfObject[sid]
        /\ \A sid \in DOMAIN info.sections :
               (HasField(sid, "markers") /\ HasField(sid, "sites"))
                   => info.sections[sid]["markers"] # info.sections[sid]["sites"]

(***************************************************************************)
(* Further properties of the parser                                        *)
(***************************************************************************)
\* C22: parse_contours terminates on every input: it is never left in a loop
\* that no further input can end (pc = "hang": the loop turns for ever on an
\* unchanged line buffer or on an exhausted stream); this holds too when a
\* top-level line does not begin with an open bracket
ParseTerminates == pc # "hang"

\* the Record Closer applied, with the cursor behind line i, to the text l:
\* what is left of a line of the file from one of its cuts on, comment and
\* outer blanks removed.  exact: the content keeps its trailing blanks
CloserHolds(i, l, exact) ==
    LET r  == is_closing(file, i, l)
        n  == Len(r.pre)
        m  == Len(r.tail)
        ci == n + 1 + Cardinality({j \in (n+1)..Len(l) : \A h \in (n+1)..j : l[h] = SP})
    IN  /\ r.closed <=> Has(l, RP)
        /\ ~r.closed => r.pre = l /\ r.tail = << >>
        /\ r.closed =>
              \* the content is the text before the first close bracket
              /\ SubSeq(l, 1, n) = r.pre
              /\ \A j \in 1..n : l[j] # RP
              /\ ci <= Len(l) /\ l[ci] = RP
              /\ exact => ci = n + 1
              /\ ~exact => (n = 0 \/ l[n] # SP)
              \* the remainder is the text after it, trimmed
              /\ m <= Len(l) - ci
              /\ SubSeq(l, Len(l) - m + 1, Len(l)) = r.tail
              /\ \A j \in (ci+1)..(Len(l) - m) : l[j] = SP
              /\ m > 0 => r.tail[1] # SP
        \* a line is pulled only when the remainder is empty
        /\ r.tail # << >> => r.post = r.tail /\ r.pos = i
        /\ r.tail = << >> => /\ r.post = strip_line(ReadLine(file, i))
                             /\ r.pos = Advance(file, i)

\* where the texts given to the Record Closer start in a line: at its start,
\* behind the header token of a record, behind a close bracket
CloserCuts(l) == {k \in 0..Len(l) : k = 0 \/ (k = 2 /\ l[1] = LP) \/ (k > 0 /\ l[k] = RP)}

\* the file never changes, so its texts are looked at once, in the state
\* before its first line is read
CloserHoldsOnFile(exact) ==
    (pc = "top" /\ pos = 0 /\ parses = 1) =>
        \A i \in 1..Len(file) : \A k \in CloserCuts(file[i]) :
            CloserHolds(i, strip_line(From(file[i], k)), exact)

\* C23 as stated: the Record Closer splits at the first close bracket,
\* whatever open brackets stand before it; the content is exactly the text
\* before that bracket, is_closed is true and the remainder is the trimmed
\* text after it; with no close bracket the content is the whole input and
\* is_closed is false; a line is pulled only when the remainder is empty
CloserSplitsExact == CloserHoldsOnFile(TRUE)

\* C23, amended: as above, but the content is the text before the first
\* close bracket with its trailing blanks removed
CloserSplitsAtFirstClose == CloserHoldsOnFile(FALSE)

\* a block with a nested open bracket was closed at its first close bracket,
\* the line after it was pulled and is the remainder
CloserWitness ==
    /\ Len(file) >= 2
    /\ file[1] = <<LP, "Other", SP, LP, "x", RP>> /\ file[2] = <<RP>>
    /\ handled = "stray" /\ line = <<RP>> /\ pos = 2

\* the unrecognized blocks that stand on lines of their own in f: <<i, j>>
\* when lines i..j of f are one block
BlocksOf(f) ==
    {<<i, i>> : i \in {i \in 1..Len(f) : strip_line(f[i]) \in {RecOther, NestedOneLine}}}
    \cup {<<i, i + 1>> : i \in {i \in 1..(Len(f) - 1) :
                                  /\ strip_line(f[i]) = NestedOpen
                                  /\ strip_line(f[i + 1]) = <<RP>>}}

\* the files that f becomes when one such block is taken out
WithoutBlock(f) ==
    {SubSeq(f, 1, ij[1] - 1) \o SubSeq(f, ij[2] + 1, Len(f)) : ij \in BlocksOf(f)}

\* C24: an unrecognized top-level block, with or without bracketed
\* sub-blocks, is discarded in full and the records after it are dispatched:
\* where the input without the block parses, the input with it parses to the
\* same Document
UnknownBlockDiscarded ==
    Ended => \A g \in WithoutBlock(file) :
                 parse_contours(g).pc = "done" => Outcome(Cur) = parse_contours(g)

\* the same for the blocks that hold no sub-block
PlainBlockDiscarded ==
    (Ended /\ \A i \in 1..Len(file) : ~Has(file[i], "y") /\ strip_line(file[i]) # NestedOpen)
    => \A g \in WithoutBlock(file) :
           parse_contours(g).pc = "done" => Outcome(Cur) = parse_contours(g)

\* the file holds, after its Sections record, a contour "A" with a Color
\* record of the form v and then a point
HoldsColor(v) ==
    /\ Len(file) >= 1 + Len(v.parts)
    /\ file[1] = RecSect1
    /\ SubSeq(file, 2, 1 + Len(v.parts)) = ColorContour(HeaderA, v.parts)

\* the first contour of section S1 has the color that v gives, and the point
\* that follows the Color record
ColorStored(v) ==
    /\ pc = "done"
    /\ asc.sections["S1"].contours # << >>
    /\ LET shape == asc.sections["S1"].contours[1]
       IN  /\ shape.name = <<"A">>
           /\ shape.hascolor /\ shape.color = v.content
           /\ Len(shape.points) = 1

\* C25: a Color record in a contour body, on one line or over several, with
\* or without a bracketed group in its value, gives the contour its color,
\* the record's content up to its close bracket, and the points after the
\* record are still appended to the contour
ColorRecordKept ==
    Ended => \A v \in ColorForms : HoldsColor(v) => ColorStored(v)

\* the same for the Color record that is on one line and holds no bracket
PlainColorKept ==
    Ended => \A v \in ColorForms :
                 (HoldsColor(v) /\ v.parts = <<ColorProp>>) => ColorStored(v)

\* the contour records of the input files whose points all decode, with the
\* name of the contour and the section id that its point records carry
ContourLines ==
    { [text |-> RecContA1, name |-> <<"A">>, sid |-> "S1"],
      [text |-> RecContB2, name |-> <<"B">>, sid |-> "S2"],
      [text |-> RecContA2, name |-> <<"A">>, sid |-> "S2"],
      [text |-> RecContB1, name |-> <<"B">>, sid |-> "S1"],
      [text |-> RecContA3, name |-> <<"A">>, sid |-> "S1"] }

IsContourLine(l) == \E c \in ContourLines : c.text = strip_line(l)

ContourOf(l) == CHOOSE c \in ContourLines : c.text = strip_line(l)

\* every line of f is one whole record: such a contour, a Sections record, a
\* Description or an unrecognized block
WholeRecords(f) ==
    \A i \in 1..Len(f) :
        IsContourLine(f[i]) \/ strip_line(f[i]) \in {RecSect1, RecSect2, RecDesc, RecOther}

\* the names of the contours of f that carry section id sid, in file order
RECURSIVE NamesIn(_, _)
NamesIn(f, sid) ==
    IF f = << >> THEN << >>
    ELSE IF IsContourLine(Last(f)) /\ ContourOf(Last(f)).sid = sid
    THEN Append(NamesIn(ButLast(f), sid), ContourOf(Last(f)).name)
    ELSE NamesIn(ButLast(f), sid)

\* the names of the contours stored in section sid, in the order of its list
StoredNames(sid) ==
    IF sid \in DOMAIN asc.sections
    THEN [i \in 1..Len(asc.sections[sid].contours) |-> asc.sections[sid].contours[i].name]
    ELSE << >>

\* C26: after a successful parse every contour of the input is in the
\* contours list of exactly one section, the one whose id its point records
\* carry, and the contours of a section are in file order
ContourInItsSection ==
    (pc = "done" /\ WholeRecords(file)) =>
        \A sid \in {"S1", "S2"} : StoredNames(sid) = NamesIn(file, sid)

\* the same for the inputs in which no Sections record follows a contour
ContourInItsSectionOnce ==
    (/\ pc = "done" /\ WholeRecords(file)
     /\ \A i \in 1..Len(file) : \A j \in 1..Len(file) :
            (IsContourLine(file[i]) /\ i < j) => strip_line(file[j]) \notin {RecSect1, RecSect2})
    => \A sid \in {"S1", "S2"} : StoredNames(sid) = NamesIn(file, sid)

\* the section ids of the facts fs
IdsOf(fs) == {fs[i][1] : i \in 1..Len(fs)}

\* every fact of fs is in sections: the ids of sections are those of fs, and
\* each entry holds the name of a fact of its id
AllInserted(fs) ==
    /\ pc = "done"
    /\ DOMAIN asc.sections = IdsOf(fs)
    /\ Cardinality(DOMAIN asc.sections) = Cardinality(IdsOf(fs))
    /\ \A k \in DOMAIN asc.sections :
           \E i \in 1..Len(fs) : fs[i][1] = k /\ asc.sections[k].name = <<fs[i][4]>>

\* C27 as stated: every section fact of a Sections block is decoded and
\* inserted, wherever it stands: on the line of the (Sections token, on a
\* line of its own or on the line of the closing bracket, alone on its line
\* or not; sections has one entry per distinct id of the block
EveryFactInserted ==
    Ended => \A fs \in FactSeqs :
                 (file = SectionsLine(fs)
                  \/ \E first \in BOOLEAN, last \in BOOLEAN :
                         file = SectionsBlock(fs, first, last))
                 => AllInserted(fs)

\* C27, amended: every section fact that is the only one of its line is
\* decoded and inserted, whether it stands on the line of the (Sections
\* token, on a line of its own or on the line of the closing bracket;
\* sections has one entry per distinct id of the block
FactPerLineInserted ==
    Ended => \A fs \in FactSeqs :
                 (\E first \in BOOLEAN, last \in BOOLEAN :
                      file = SectionsBlock(fs, first, last))
                 => AllInserted(fs)

\* a block has been read whose first fact is on the line of the token, the
\* second on a line of its own and the third, of the first's id, on the line
\* of the closing bracket
FactPerLineWitness ==
    /\ pc = "done"
    /\ file = SectionsBlock(<<Fact1, Fact2, Fact1>>, TRUE, TRUE)
    /\ Len(file) = 3
    /\ DOMAIN asc.sections = {"S1", "S2"}

(***************************************************************************)
(* Further properties of the geometry engine                               *)
(***************************************************************************)
\* the face holds a vertex twice
TwoEqual(fv) == \E i \in 1..Len(fv) : \E j \in 1..Len(fv) : i < j /\ fv[i] = fv[j]

\* the first n faces of the call, without those that hold a vertex twice,
\* that the ray from point p crosses
CrossedWithout(p, n) ==
    {k \in 1..n :
        LET fv == FaceVertices(geo.vertices, geo.faces[k])
        IN  /\ ~TwoEqual(fv)
            /\ Dot(geo.ray, Normal(Len(p), fv)) # 0
            /\ Crosses(Len(p), p, fv, geo.ray)}

\* the call has a face of two equal vertices
HasDegenerate ==
    \E k \in 1..Len(geo.faces) :
        /\ \A i \in 1..Len(geo.faces[k]) : IndexInRange(geo.vertices, geo.faces[k][i])
        /\ TwoEqual(FaceVertices(geo.vertices, geo.faces[k]))

\* C28: a face with two equal vertices never makes is_inside fail and adds
\* no crossing to any point: during the loop over the faces each count is
\* the number of crossed faces among the others, and the classification
\* returned is the one of the face list without that face (for the ray that
\* the call has drawn)
DegenerateFaceIgnored ==
    (geo.op = "is_inside" /\ HasDegenerate) =>
        /\ gpc # "raised"
        /\ gpc \in {"faces", "returned"} =>
               \A b \in DOMAIN geo.cross :
                   geo.cross[b] = Cardinality(CrossedWithout(PointAt(geo.points, b), geo.nface))
        /\ gpc = "returned" =>
               \A b \in DOMAIN geo.cross :
                   mask.at[b] = (Cardinality(CrossedWithout(PointAt(geo.points, b),
                                                            Len(geo.faces))) % 2 = 1)

\* is_inside has returned for the unit square with a vertex given twice, the
\* point (0.5,0.5) classified inside and the point (1.5,0.5) outside
DegenerateFaceWitness ==
    /\ gpc = "returned" /\ geo.op = "is_inside"
    /\ geo.vertices = DoubledSquare /\ geo.nface = 5
    /\ geo.points = asarray(<<<<1, 1>>, <<3, 1>>>>)
    /\ mask.at[<<0>>] /\ ~mask.at[<<1>>]

====
